---- MODULE Spec2Model ----
(***************************************************************************)
(* Model of layer/convolution_transpose.py: the primitive ConvTransLayer   *)
(* and the composite ConvolutionalTransposeLayer.                          *)
(*                                                                         *)
(* Python strings are sequences of one-character strings, so that          *)
(* str.upper() and str.format() are computed and not assumed.  None is the *)
(* empty tuple and a present optional value x is <<x>>.  A tensor handle   *)
(* is its static shape together with the chain of operations that          *)
(* produced it.                                                            *)
(***************************************************************************)
EXTENDS Integers, Sequences, FiniteSets, TLC

VARIABLES prim_ctor, comp_ctor, layer, comp, params, result, comp_result

vars == <<prim_ctor, comp_ctor, layer, comp, params, result, comp_result>>

-----------------------------------------------------------------------------
(* Bounds of the model *)

MaxChns == 2
MaxDim == 2

-----------------------------------------------------------------------------
(* Strings and optional values *)

None == <<>>
Some(x) == <<x>>

LowerCase == <<"a","b","c","d","e","f","g","h","i","j","k","l","m",
               "n","o","p","q","r","s","t","u","v","w","x","y","z">>
UpperCase == <<"A","B","C","D","E","F","G","H","I","J","K","L","M",
               "N","O","P","Q","R","S","T","U","V","W","X","Y","Z">>

UpperChar(c) ==
    IF \E i \in 1..Len(LowerCase) : LowerCase[i] = c
    THEN UpperCase[CHOOSE i \in 1..Len(LowerCase) : LowerCase[i] = c]
    ELSE c

Upper(s) == [i \in 1..Len(s) |-> UpperChar(s[i])]

SUPPORTED_PADDING == { <<"S","A","M","E">>, <<"V","A","L","I","D">> }

-----------------------------------------------------------------------------
(* numpy arrays: an argument that is an int is a 0-d array holding one item, *)
(* a per-axis list is a 1-d array; flatten() yields the items as a 1-d array *)

Scalar(k) == [ndim |-> 0, items |-> <<k>>]
PerAxis(seq) == [ndim |-> 1, items |-> seq]

AsArrayFlatten(arg) == arg.items

RECURSIVE Concat(_)
Concat(rows) ==
    IF rows = <<>> THEN <<>> ELSE Head(rows) \o Concat(Tail(rows))

(* np.vstack(blocks).flatten(): every block is made 2-d (a sequence of rows), *)
(* the rows are stacked, which needs rows of one width, and read row by row.  *)
VStackFlatten(blocks) ==
    LET rows == Concat(blocks)
    IN  [ok    |-> \A i, j \in 1..Len(rows) : Len(rows[i]) = Len(rows[j]),
         value |-> Concat(rows)]

Repeat(x, n) == [i \in 1..n |-> x]

-----------------------------------------------------------------------------
(* Collaborators outside this file *)

look_up_operations(type_str, supported) ==
    [found |-> type_str \in supported, value |-> type_str]

infer_spatial_rank(input_shape) == Len(input_shape) - 2

(* tf.get_variable inside the layer's template scope: a name is created on *)
(* first request and reused afterwards; a reuse with another shape fails.  *)
GetVariable(store, name, shape) ==
    IF \E v \in store : v.name = name
    THEN [ok |-> [name |-> name, shape |-> shape] \in store, store |-> store]
    ELSE [ok |-> TRUE, store |-> store \cup {[name |-> name, shape |-> shape]}]

-----------------------------------------------------------------------------
(* Tensor handles *)

Tensor(shape, ops) == [shape |-> shape, ops |-> ops]
NoTensor == Tensor(<<>>, <<>>)

-----------------------------------------------------------------------------
(* ConvTransLayer *)

NoLayer(status) ==
    [status |-> status, padding |-> <<>>, n_output_chns |-> 0,
     kernel_size |-> <<>>, stride |-> <<>>, with_bias |-> FALSE]

NormalisedPadding_NoUpper(padding) == padding

NormalisedPadding(padding) == Upper(padding)

ConvTransLayerInit(cfg) ==
    LET found == look_up_operations(NormalisedPadding(cfg.padding),
                                    SUPPORTED_PADDING)
    IN  IF ~found.found
        THEN NoLayer("raised")
        ELSE [status        |-> "ok",
              padding       |-> found.value,
              n_output_chns |-> cfg.n_output_chns,
              kernel_size   |-> AsArrayFlatten(cfg.kernel_size),
              stride        |-> AsArrayFlatten(cfg.stride),
              with_bias     |-> cfg.with_bias]

WFullSize_Swapped(self, spatial_rank, n_input_chns) ==
    VStackFlatten(<< Repeat(self.kernel_size, spatial_rank),
                     << <<n_input_chns>> >>,
                     << <<self.n_output_chns>> >> >>)

WFullSize(self, spatial_rank, n_input_chns) ==
    VStackFlatten(<< Repeat(self.kernel_size, spatial_rank),
                     << <<self.n_output_chns>> >>,
                     << <<n_input_chns>> >> >>)

FullStride(self, spatial_rank) ==
    VStackFlatten(Repeat(<<self.stride>>, spatial_rank)).value

OutputShape_ChannelsFirst(self, input_shape) ==
    [input_shape EXCEPT ![1] = self.n_output_chns]

OutputShape(self, input_shape) ==
    [input_shape EXCEPT ![Len(input_shape)] = self.n_output_chns]

WeightName_PerCall == IF result.status = "none" THEN "w" ELSE "w_1"

WeightName == "w"

BiasShape(self) == <<self.n_output_chns>>

(* tf.nn.conv3d_transpose while the graph is built: the value is 5-d, its    *)
(* channels are the filter's input channels, output_shape has 5 entries and  *)
(* its channels are the filter's output channels, the padding is known; the  *)
(* handle it returns has the static shape output_shape.                      *)
Conv3dTranspose(value, filter, output_shape, strides, padding) ==
    LET ok == /\ Len(value.shape) = 5
              /\ Len(filter) = 5
              /\ value.shape[5] = filter[5]
              /\ Len(output_shape) = 5
              /\ output_shape[5] = filter[4]
              /\ padding \in SUPPORTED_PADDING
    IN  [ok     |-> ok,
         tensor |-> IF ok THEN Tensor(output_shape,
                                      value.ops \o <<"conv_trans">>)
                          ELSE NoTensor]

BiasAdd(value, bias_shape) == Tensor(value.shape, value.ops \o <<"add_bias">>)

ReturnsBeforeBias_Never(self) == FALSE

ReturnsBeforeBias(self) == ~self.with_bias

NoResult ==
    [status |-> "none", error |-> "", input_shape |-> <<>>,
     w_full_size |-> <<>>, w_reused |-> FALSE, strides |-> <<>>,
     output |-> NoTensor]

(* What one layer_op call did: how it ended, the input it was given (kept  *)
(* unless the variable store refused the request), the weight shape and    *)
(* strides it asked for, whether 'w' was already there, and its output.    *)
ConvTransLayerOp(self, store, input_tensor) ==
    LET input_shape  == input_tensor.shape
        n_input_chns == input_shape[Len(input_shape)]
        spatial_rank == infer_spatial_rank(input_shape)
        w            == WFullSize(self, spatial_rank, n_input_chns)
        full_stride  == FullStride(self, spatial_rank)
        kernel       == GetVariable(store, WeightName, w.value)
        output_shape == OutputShape(self, input_shape)
        strides      == <<1>> \o full_stride \o <<1>>
        conv         == Conv3dTranspose(input_tensor, w.value, output_shape,
                                        strides, self.padding)
        bias         == GetVariable(kernel.store, "b", BiasShape(self))
        done(status, error, out) ==
            [status |-> status, error |-> error, input_shape |-> input_shape,
             w_full_size |-> w.value, w_reused |-> kernel.store = store,
             strides |-> strides, output |-> out]
    IN  IF ~w.ok
        THEN [params |-> store,
              result |-> [NoResult EXCEPT !.status = "raised",
                                          !.error = "vstack: dimension mismatch",
                                          !.input_shape = input_shape]]
        ELSE IF ~kernel.ok
        THEN [params |-> store,
              result |-> [NoResult EXCEPT !.status = "raised",
                                          !.error = "get_variable: shape mismatch",
                                          !.w_reused = TRUE]]
        ELSE IF ~conv.ok
        THEN [params |-> kernel.store,
              result |-> done("raised", "conv3d_transpose: value is not 5-d",
                              NoTensor)]
        ELSE IF ReturnsBeforeBias(self)
        THEN [params |-> kernel.store,
              result |-> done("returned", "", conv.tensor)]
        ELSE IF ~bias.ok
        THEN [params |-> kernel.store,
              result |-> [NoResult EXCEPT !.status = "raised",
                                          !.error = "get_variable: shape mismatch",
                                          !.w_reused = TRUE]]
        ELSE [params |-> bias.store,
              result |-> done("returned", "",
                              BiasAdd(conv.tensor, BiasShape(self)))]

-----------------------------------------------------------------------------
(* Collaborators of the composite layer: BNLayer keeps the shape; ActiLayer *)
(* keeps the shape and knows a fixed catalog of function names.             *)

SUPPORTED_OP == { <<"r","e","l","u">>, <<"d","r","o","p","o","u","t">> }

BNLayer(name, tensor) == Tensor(tensor.shape, tensor.ops \o <<name>>)

ActiLayer(func, name, tensor) ==
    [ok     |-> func \in SUPPORTED_OP,
     tensor |-> Tensor(tensor.shape, tensor.ops \o <<name>>)]

-----------------------------------------------------------------------------
(* ConvolutionalTransposeLayer *)

NoComp ==
    [status |-> "none", layer_name |-> <<>>, acti_func |-> None,
     with_bn |-> FALSE, n_output_chns |-> 0, kernel_size |-> Scalar(0),
     stride |-> Scalar(0), padding |-> <<>>, with_bias |-> FALSE]

LayerName_NoBnSuffix(name, with_bn, acti_func) ==
    IF acti_func # None THEN name \o <<"_">> \o acti_func[1] ELSE name

LayerName(name, with_bn, acti_func) ==
    LET plain   == name
        with_n  == IF with_bn THEN plain \o <<"_","b","n">> ELSE plain
    IN  IF acti_func # None THEN with_n \o <<"_">> \o acti_func[1] ELSE with_n

CompInit(cfg) ==
    [status        |-> "ok",
     layer_name    |-> LayerName(cfg.name, cfg.with_bn, cfg.acti_func),
     acti_func     |-> cfg.acti_func,
     with_bn       |-> cfg.with_bn,
     n_output_chns |-> cfg.n_output_chns,
     kernel_size   |-> cfg.kernel_size,
     stride        |-> cfg.stride,
     padding       |-> cfg.padding,
     with_bias     |-> cfg.with_bias]

InnerConfig(self) ==
    [n_output_chns |-> self.n_output_chns, kernel_size |-> self.kernel_size,
     stride |-> self.stride, padding |-> self.padding,
     with_bias |-> self.with_bias]

NormEnabled(self) == self.with_bn

ActiEnabled(self) == self.acti_func # None

DropoutEnabled_Truthy(keep_prob) == keep_prob # None /\ keep_prob[1] # 0

DropoutEnabled(keep_prob) == keep_prob # None

NoCompResult ==
    [status |-> "none", error |-> "", keep_prob |-> None, output |-> NoTensor]

CompRaised(error) ==
    [NoCompResult EXCEPT !.status = "raised", !.error = error]

CompLayerOp(self, store, input_tensor, keep_prob) ==
    LET conv_trans_layer == ConvTransLayerInit(InnerConfig(self))
        conv    == ConvTransLayerOp(conv_trans_layer, store, input_tensor)
        t_conv  == conv.result.output
        t_bn    == IF NormEnabled(self) THEN BNLayer("bn_", t_conv) ELSE t_conv
        acti    == ActiLayer(self.acti_func[1], "acti_", t_bn)
        t_acti  == IF ActiEnabled(self) THEN acti.tensor ELSE t_bn
        dropout == ActiLayer(<<"d","r","o","p","o","u","t">>, "dropout_", t_acti)
        t_out   == IF DropoutEnabled(keep_prob) THEN dropout.tensor ELSE t_acti
    IN  IF conv_trans_layer.status = "raised"
        THEN [layer |-> conv_trans_layer, params |-> store, result |-> NoResult,
              comp_result |-> CompRaised("ConvTransLayer: unsupported padding")]
        ELSE IF conv.result.status = "raised"
        THEN [layer |-> conv_trans_layer, params |-> conv.params,
              result |-> conv.result,
              comp_result |-> CompRaised(conv.result.error)]
        ELSE IF ActiEnabled(self) /\ ~acti.ok
        THEN [layer |-> conv_trans_layer, params |-> conv.params,
              result |-> conv.result,
              comp_result |-> CompRaised("ActiLayer: unsupported function")]
        ELSE [layer |-> conv_trans_layer, params |-> conv.params,
              result |-> conv.result,
              comp_result |-> [status |-> "returned", error |-> "",
                               keep_prob |-> keep_prob, output |-> t_out]]

-----------------------------------------------------------------------------
(* Arguments the layers are built from and called with *)

Paddings ==
    { <<"S","A","M","E">>, <<"V","A","L","I","D">>, <<"s","a","m","e">>,
      <<"F","U","L","L">> }

(* kernel_size: 1, the default 3, or one entry per spatial axis *)
KernelArgs == { Scalar(1), Scalar(3), PerAxis(<<1, 2, 3>>) }

(* stride: the default 1, 2, or one entry per spatial axis *)
StrideArgs == { Scalar(1), Scalar(2), PerAxis(<<1, 2, 2>>) }

ExampleConfig ==
    [n_output_chns |-> 16, kernel_size |-> Scalar(3), stride |-> Scalar(2),
     padding |-> <<"S","A","M","E">>, with_bias |-> FALSE]

ExampleInput == <<1, 8, 8, 8, 4>>

PrimConfigs ==
    [n_output_chns : 1..MaxChns, kernel_size : KernelArgs, stride : StrideArgs,
     padding : Paddings, with_bias : BOOLEAN] \cup {ExampleConfig}

ActiArgs == { None, Some(<<"r","e","l","u">>), Some(<<"b","n">>) }

Names == { <<"u","p">> }

(* the composite layer is built with its default stride and with_bias *)
CompConfigs ==
    [n_output_chns : 1..MaxChns, kernel_size : KernelArgs, stride : {Scalar(1)},
     padding : Paddings, with_bias : {FALSE}, with_bn : BOOLEAN,
     acti_func : ActiArgs, name : Names]

Batches == {1, 2}

SpatialRanks == {2, 3}

InputShapes ==
    { <<b>> \o Repeat(d, r) \o <<c>> :
        b \in Batches, d \in 1..MaxDim, r \in SpatialRanks, c \in 1..MaxChns }
    \cup {ExampleInput}

(* keep_prob in percent *)
KeepProbs == { None, Some(0), Some(50) }

-----------------------------------------------------------------------------
(* The state machine: layers are constructed and called *)

NoCtor == [called |-> FALSE, padding |-> <<>>, name |-> <<>>, raised |-> FALSE]

Ctor(padding, name, raised) ==
    [called |-> TRUE, padding |-> padding, name |-> name, raised |-> raised]

(* one run builds one layer, directly or as a composite, and then calls it *)
NothingConstructed == ~prim_ctor.called /\ ~comp_ctor.called

Init ==
    /\ prim_ctor = NoCtor
    /\ comp_ctor = NoCtor
    /\ layer = NoLayer("none")
    /\ comp = NoComp
    /\ params = {}
    /\ result = NoResult
    /\ comp_result = NoCompResult

ConstructConvTransLayer ==
    /\ NothingConstructed
    /\ \E cfg \in PrimConfigs :
        LET self == ConvTransLayerInit(cfg)
        IN  /\ prim_ctor' = Ctor(cfg.padding, <<>>, self.status = "raised")
            /\ comp_ctor' = NoCtor
            /\ layer' = self
            /\ comp' = NoComp
            /\ params' = {}
            /\ result' = NoResult
            /\ comp_result' = NoCompResult

CallConvTransLayer ==
    /\ layer.status = "ok"
    /\ comp.status = "none"
    /\ \E shape \in InputShapes :
        \E out \in {ConvTransLayerOp(layer, params, Tensor(shape, <<>>))} :
            /\ params' = out.params
            /\ result' = out.result
    /\ UNCHANGED <<prim_ctor, comp_ctor, layer, comp, comp_result>>

ConstructComposite ==
    /\ NothingConstructed
    /\ \E cfg \in CompConfigs :
        /\ comp_ctor' = Ctor(cfg.padding, cfg.name, FALSE)
        /\ prim_ctor' = NoCtor
        /\ comp' = CompInit(cfg)
        /\ layer' = NoLayer("none")
        /\ params' = {}
        /\ result' = NoResult
        /\ comp_result' = NoCompResult

CallComposite ==
    /\ comp.status = "ok"
    /\ \E shape \in InputShapes, keep_prob \in KeepProbs :
        \E out \in {CompLayerOp(comp, params, Tensor(shape, <<>>), keep_prob)} :
            /\ prim_ctor' = Ctor(comp.padding, <<>>, out.layer.status = "raised")
            /\ layer' = out.layer
            /\ params' = out.params
            /\ result' = out.result
            /\ comp_result' = out.comp_result
    /\ UNCHANGED <<comp_ctor, comp>>

Next ==
    \/ ConstructConvTransLayer
    \/ CallConvTransLayer
    \/ ConstructComposite
    \/ CallComposite

Spec == Init /\ [][Next]_vars

-----------------------------------------------------------------------------
(* Properties *)

(* C1, as stated: a ConvTransLayer is constructed exactly when the padding *)
(* argument is itself 'SAME' or 'VALID', every other string fails, and the *)
(* stored padding is one of the two.                                       *)
C1_OnlyExactStrings ==
    prim_ctor.called =>
        /\ prim_ctor.raised <=> prim_ctor.padding \notin SUPPORTED_PADDING
        /\ layer.status = "ok" => layer.padding \in SUPPORTED_PADDING

(* C1, amended: a ConvTransLayer is constructed exactly when the padding   *)
(* argument in upper case is 'SAME' or 'VALID'; the stored padding is that *)
(* upper-case string, hence one of the two.                                *)
C1_CaseInsensitive ==
    prim_ctor.called =>
        /\ prim_ctor.raised <=> Upper(prim_ctor.padding) \notin SUPPORTED_PADDING
        /\ prim_ctor.raised <=> layer.status = "raised"
        /\ ~prim_ctor.raised =>
              /\ layer.status = "ok"
              /\ layer.padding = Upper(prim_ctor.padding)
              /\ layer.padding \in SUPPORTED_PADDING

C1_Witness ==
    /\ ~comp_ctor.called
    /\ prim_ctor.called
    /\ prim_ctor.padding = <<"s","a","m","e">>
    /\ layer.status = "ok"
    /\ layer.padding = <<"S","A","M","E">>

(* C2: every layer whose layer_op has been entered, the composite layer   *)
(* included, was built with a supported padding: an unsupported padding   *)
(* is rejected by the constructor and never during the call.              *)
C2_RejectedAtConstruction ==
    comp_result.status # "none" => Upper(comp.padding) \in SUPPORTED_PADDING

(* C3: a call of ConvTransLayer.layer_op that returns gives a tensor of    *)
(* the rank and batch size of its input whose last dimension is the        *)
(* configured n_output_chns.                                               *)
C3_OutputRankBatchChannels ==
    result.status = "returned" =>
        LET in  == result.input_shape
            out == result.output.shape
        IN  /\ Len(out) = Len(in)
            /\ out[1] = in[1]
            /\ out[Len(out)] = layer.n_output_chns

C3_Witness ==
    /\ result.status = "returned"
    /\ result.input_shape[1] = 2
    /\ result.input_shape[5] # layer.n_output_chns
    /\ result.output.shape[5] = layer.n_output_chns

(* C4: with padding 'SAME' and a scalar stride s, every spatial dimension  *)
(* of the output of ConvTransLayer.layer_op is s times that of the input.  *)
C4_SpatialTimesStride ==
    ( /\ result.status = "returned"
      /\ layer.padding = <<"S","A","M","E">>
      /\ Len(layer.stride) = 1 ) =>
        \A i \in 2..(Len(result.input_shape) - 1) :
            result.output.shape[i] = layer.stride[1] * result.input_shape[i]

(* C5: for a scalar kernel_size k and a scalar stride s, layer_op asks for *)
(* a weight of shape k repeated r times, n_output_chns, n_in and passes    *)
(* the strides 1, s repeated r times, 1, where r is the spatial rank of    *)
(* the input and n_in its last dimension.                                  *)
C5_ScalarBroadcast ==
    ( /\ result.w_full_size # <<>>
      /\ Len(layer.kernel_size) = 1
      /\ Len(layer.stride) = 1 ) =>
        LET in == result.input_shape
            r  == Len(in) - 2
        IN  /\ result.w_full_size =
                  [i \in 1..r |-> layer.kernel_size[1]]
                      \o <<layer.n_output_chns, in[Len(in)]>>
            /\ result.strides =
                  <<1>> \o [i \in 1..r |-> layer.stride[1]] \o <<1>>

C5_Witness ==
    /\ result.status = "returned"
    /\ layer.kernel_size = <<3>>
    /\ layer.stride = <<2>>
    /\ layer.n_output_chns # result.input_shape[5]
    /\ result.w_full_size = <<3, 3, 3, layer.n_output_chns, result.input_shape[5]>>
    /\ result.strides = <<1, 2, 2, 2, 1>>

(* C6: when kernel_size or stride has one entry per spatial axis of the    *)
(* input, layer_op does not fail in the shape arithmetic and uses exactly  *)
(* those entries: weight shape k_1..k_r, n_output_chns, n_in and strides   *)
(* 1, s_1..s_r, 1.                                                         *)
C6_PerAxisUsedAsGiven ==
    LET in == result.input_shape
        r  == Len(in) - 2
        k  == IF Len(layer.kernel_size) = 1
              THEN [i \in 1..r |-> layer.kernel_size[1]] ELSE layer.kernel_size
        s  == IF Len(layer.stride) = 1
              THEN [i \in 1..r |-> layer.stride[1]] ELSE layer.stride
    IN  ( /\ layer.status = "ok"
          /\ in # <<>>
          /\ Len(layer.kernel_size) \in {1, r}
          /\ Len(layer.stride) \in {1, r} ) =>
            /\ result.error # "vstack: dimension mismatch"
            /\ result.w_full_size = k \o <<layer.n_output_chns, in[Len(in)]>>
            /\ result.strides = <<1>> \o s \o <<1>>

(* C7: a returning layer_op with with_bias = FALSE leaves no parameter 'b' *)
(* and returns the result of the transposed convolution; with with_bias =  *)
(* TRUE there is exactly one 'b', of shape n_output_chns, and the output   *)
(* is the bias addition applied to the transposed convolution.             *)
C7_BiasOnlyWhenAsked ==
    result.status = "returned" =>
        LET bs == {v \in params : v.name = "b"}
        IN  IF layer.with_bias
            THEN /\ bs = {[name |-> "b", shape |-> <<layer.n_output_chns>>]}
                 /\ result.output.ops = <<"conv_trans", "add_bias">>
            ELSE /\ bs = {}
                 /\ result.output.ops = <<"conv_trans">>

C7_Witness ==
    /\ result.status = "returned"
    /\ layer.with_bias
    /\ layer.n_output_chns = 2
    /\ [name |-> "b", shape |-> <<2>>] \in params
    /\ result.output.ops = <<"conv_trans", "add_bias">>

(* C8: the output of a returning ConvolutionalTransposeLayer.layer_op is   *)
(* the primitive's output followed by normalization iff with_bn, then the  *)
(* activation iff acti_func is not None, then dropout iff keep_prob is not *)
(* None, in this order and nothing else; with the three of them off it is  *)
(* the primitive's output.                                                 *)
C8_StagesInOrder ==
    comp_result.status = "returned" =>
        LET bn   == IF comp.with_bn THEN <<"bn_">> ELSE <<>>
            acti == IF comp.acti_func # None THEN <<"acti_">> ELSE <<>>
            drop == IF comp_result.keep_prob # None THEN <<"dropout_">> ELSE <<>>
        IN  /\ result.status = "returned"
            /\ Head(result.output.ops) = "conv_trans"
            /\ comp_result.output.ops = result.output.ops \o bn \o acti \o drop
            /\ comp_result.output.shape = result.output.shape
            /\ (bn \o acti \o drop = <<>>) => comp_result.output = result.output

C8_Witness ==
    /\ comp_result.status = "returned"
    /\ comp.with_bn
    /\ comp.acti_func = None
    /\ comp_result.keep_prob = Some(0)
    /\ comp_result.output.ops = <<"conv_trans", "bn_", "dropout_">>

(* C9: construction creates no parameter; a layer_op call that returns     *)
(* leaves exactly 'w', and 'b' iff with_bias; once layer_op has been       *)
(* called, no later call changes the parameters.                           *)
C9_CreateOnceThenReuse ==
    /\ [](result.status = "none" /\ comp_result.status = "none" => params = {})
    /\ [](result.status = "returned" =>
             {v.name : v \in params} =
                 {"w"} \cup (IF layer.with_bias THEN {"b"} ELSE {}))
    /\ [][(result.status # "none" \/ comp_result.status # "none")
              => params' = params]_vars

C9_Witness ==
    /\ result.status = "returned"
    /\ result.w_reused
    /\ layer.with_bias
    /\ Cardinality(params) = 2

(* C10, as stated: two composite layers built from the same base name      *)
(* whose sets of active optional stages (normalization, activation,        *)
(* dropout) differ have different names.                                   *)
C10_NameTellsActiveStages ==
    comp_result.status = "returned" =>
        LET active(bn, acti, keep_prob) ==
                (IF bn THEN {"bn"} ELSE {})
                    \cup (IF acti # None THEN {"acti"} ELSE {})
                    \cup (IF keep_prob # None THEN {"dropout"} ELSE {})
        IN  \A bn \in BOOLEAN, acti \in ActiArgs, keep_prob \in KeepProbs :
                active(bn, acti, keep_prob) #
                    active(comp.with_bn, comp.acti_func, comp_result.keep_prob)
                => LayerName(comp_ctor.name, bn, acti) # comp.layer_name

(* C10, amended: the name is the base name, then '_bn' iff with_bn, then   *)
(* '_' and acti_func iff acti_func is not None, and nothing for dropout;   *)
(* a layer built from the same base name that differs in with_bn only, or  *)
(* in acti_func only, has another name.                                    *)
C10_NameTellsBnAndActi ==
    comp.status = "ok" =>
        /\ comp.layer_name =
              comp_ctor.name
                  \o (IF comp.with_bn THEN <<"_","b","n">> ELSE <<>>)
                  \o (IF comp.acti_func # None
                      THEN <<"_">> \o comp.acti_func[1] ELSE <<>>)
        /\ \A bn \in BOOLEAN, acti \in ActiArgs :
              (bn # comp.with_bn) # (acti # comp.acti_func)
              => LayerName(comp_ctor.name, bn, acti) # comp.layer_name

C10_Witness ==
    /\ comp_result.status = "returned"
    /\ comp.with_bn
    /\ comp.acti_func = Some(<<"r","e","l","u">>)
    /\ comp_result.keep_prob # None
    /\ comp.layer_name = <<"u","p","_","b","n","_","r","e","l","u">>

====
